---- MODULE Spec2Model ----
(***************************************************************************)
(* Model of PkgV (py-utils/src/utils/validator/v_pkg.py): the package      *)
(* validator of cortx-utils.  Texts (command strings, command output, host *)
(* strings, package names and versions) are sequences of one-character     *)
(* strings, so that str.find and the three regular expressions of the      *)
(* module are computed character by character.                             *)
(***************************************************************************)
EXTENDS Naturals, Integers, Sequences, FiniteSets, TLC

VARIABLES passwdless_ssh_enabled, ssh, sessions, last

vars == <<passwdless_ssh_enabled, ssh, sessions, last>>

(***************************************************************************)
(* Bounds of the model.                                                    *)
(***************************************************************************)
\* SSHChannel objects constructed over the life of one PkgV instance
MaxSessions == 2
\* lines in the text a command prints
MaxLines == 2

\* errno.EINVAL
EINVAL == 22

(***************************************************************************)
(* Texts.                                                                  *)
(***************************************************************************)
NL == "\n"
Digits == {"0", "1", "2", "3", "4", "5", "6", "7", "8", "9"}
Letters == {"a", "b", "c", "d", "e", "f", "g", "h", "i", "j", "k", "l", "m",
            "n", "o", "p", "q", "r", "s", "t", "u", "v", "w", "x", "y", "z",
            "N"}
\* the class \w
WordChars == Letters \cup Digits \cup {"_"}
\* the class [0-9.]
DigitDot == Digits \cup {"."}

\* host=None of validate; "%s" % None prints the four characters of NoneText
None == <<"<None>">>
NoneText == <<"N", "o", "n", "e">>
Empty == <<>>

\* "%s" % x
Fmt(x) == IF x = None THEN NoneText ELSE x

\* the truth value Python gives a host argument: None and "" are false
Truthy(x) == x # None /\ x # Empty

\* text[i..j], 1-based and inclusive; empty when j < i
Slice(text, i, j) == SubSeq(text, i, j)

\* whether sub occurs in text at 1-based position i
OccursAt(text, sub, i) ==
    /\ i >= 1
    /\ i + Len(sub) - 1 <= Len(text)
    /\ \A k \in 1..Len(sub) : text[i + k - 1] = sub[k]

\* (a variant of str.find that looks at the start of the text only)
FindAtStart(text, sub) == IF OccursAt(text, sub, 1) THEN 0 ELSE -1

\* str.find(sub): the 0-based index of the first occurrence, -1 when none
Find(text, sub) ==
    LET hits == {i \in 1..(Len(text) + 1) : OccursAt(text, sub, i)}
    IN  IF hits = {} THEN -1
        ELSE (CHOOSE i \in hits : \A j \in hits : i <= j) - 1

\* the last position of the longest run of characters of class cls that
\* starts at position i (i - 1 when text[i] is not in cls)
RECURSIVE RunEnd(_, _, _)
RunEnd(text, cls, i) ==
    IF i <= Len(text) /\ text[i] \in cls THEN RunEnd(text, cls, i + 1)
    ELSE i - 1

Min(S) == CHOOSE x \in S : \A y \in S : x <= y
Max(S) == CHOOSE x \in S : \A y \in S : y <= x

\* a regular-expression search result: found, and the captured groups
NoMatch == [found |-> FALSE, groups |-> <<>>]
Match(gs) == [found |-> TRUE, groups |-> gs]

(***************************************************************************)
(* re.search of the pattern  %s-([^-][0-9.]+)-  in result, for a pkg with  *)
(* no                                                                      *)
(* regular-expression metacharacters.  At a start position the pattern     *)
(* needs pkg, "-", one character that is not "-", the longest run of       *)
(* [0-9.] (at least one character) and "-"; a shorter run cannot be        *)
(* followed by "-", so the greedy run is the only candidate.  The leftmost *)
(* start position that matches wins.                                       *)
(***************************************************************************)
RpmMatchAt(text, pkg, i) ==
    LET d == i + Len(pkg)           \* the "-" after the name
        g == d + 1                  \* first character of the group
        e == RunEnd(text, DigitDot, g + 1)
    IN  /\ OccursAt(text, pkg, i)
        /\ d <= Len(text) /\ text[d] = "-"
        /\ g <= Len(text) /\ text[g] # "-"
        /\ e >= g + 1
        /\ e + 1 <= Len(text) /\ text[e + 1] = "-"

RpmGroupAt(text, pkg, i) ==
    LET g == i + Len(pkg) + 1
    IN  Slice(text, g, RunEnd(text, DigitDot, g + 1))

RpmVersionSearch(text, pkg) ==
    LET hits == {i \in 1..Len(text) : RpmMatchAt(text, pkg, i)}
    IN  IF hits = {} THEN NoMatch
        ELSE Match(<<RpmGroupAt(text, pkg, Min(hits))>>)

(***************************************************************************)
(* re.search of the pip3 version pattern in result (v_pkg.py line 137):    *)
(* pkg, a space, an opening parenthesis, the longest                       *)
(* text without a newline that a closing parenthesis follows, and that     *)
(* parenthesis.                                                            *)
(***************************************************************************)
LineEnd(text, j) ==
    LET nls == {k \in j..Len(text) : text[k] = NL}
    IN  IF nls = {} THEN Len(text) ELSE Min(nls) - 1

Pip3Closers(text, pkg, i) ==
    LET g == i + Len(pkg) + 2       \* first character of the group
    IN  {q \in g..LineEnd(text, g) : text[q] = ")"}

Pip3MatchAt(text, pkg, i) ==
    /\ OccursAt(text, pkg \o <<" ", "(">>, i)
    /\ Pip3Closers(text, pkg, i) # {}

Pip3GroupAt(text, pkg, i) ==
    Slice(text, i + Len(pkg) + 2, Max(Pip3Closers(text, pkg, i)) - 1)

Pip3VersionSearch(text, pkg) ==
    LET hits == {i \in 1..Len(text) : Pip3MatchAt(text, pkg, i)}
    IN  IF hits = {} THEN NoMatch
        ELSE Match(<<Pip3GroupAt(text, pkg, Min(hits))>>)

(***************************************************************************)
(* re.search of the pattern  (\w+):(.+)@(.+):(\d+)  in host.  From a start *)
(* position the                                                            *)
(* greedy \w+ is the longest run of word characters (a shorter one is not  *)
(* followed by ":"); the greedy first (.+) ends at the last "@" from which *)
(* the rest still matches; the greedy second (.+) ends at the last ":"     *)
(* that a digit follows; \d+ is the longest run of digits.  "." matches    *)
(* every character but a newline.                                          *)
(***************************************************************************)
NoNewline(text, i, j) == \A k \in i..j : text[k] # NL

\* the ":" positions c that can end the third group when it starts at h
HostColons(text, h) ==
    {c \in (h + 1)..(Len(text) - 1) :
        /\ text[c] = ":"
        /\ text[c + 1] \in Digits
        /\ NoNewline(text, h, c - 1)}

\* the "@" positions a that can end the second group when it starts at p
HostAts(text, p) ==
    {a \in (p + 1)..Len(text) :
        /\ text[a] = "@"
        /\ NoNewline(text, p, a - 1)
        /\ HostColons(text, a + 1) # {}}

HostMatchAt(text, s) ==
    LET u == RunEnd(text, WordChars, s)
    IN  /\ u >= s
        /\ u + 1 <= Len(text) /\ text[u + 1] = ":"
        /\ HostAts(text, u + 2) # {}

HostGroupsAt(text, s) ==
    LET u == RunEnd(text, WordChars, s)
        a == Max(HostAts(text, u + 2))
        c == Max(HostColons(text, a + 1))
    IN  << Slice(text, s, u),
           Slice(text, u + 2, a - 1),
           Slice(text, a + 1, c - 1),
           Slice(text, c + 1, RunEnd(text, Digits, c + 1)) >>

\* (a variant that takes a string the pattern does not match as a bare host)
HostSearchLenient(text) ==
    LET hits == {s \in 1..Len(text) : HostMatchAt(text, s)}
    IN  IF hits = {} THEN Match(<<Empty, Empty, text, Empty>>)
        ELSE Match(HostGroupsAt(text, Min(hits)))

HostSearch(text) ==
    LET hits == {s \in 1..Len(text) : HostMatchAt(text, s)}
    IN  IF hits = {} THEN NoMatch
        ELSE Match(HostGroupsAt(text, Min(hits)))

(***************************************************************************)
(* The inputs of the model: package names, versions, host strings, target  *)
(* collections and the texts the commands print.                           *)
(***************************************************************************)
Bash == <<"b", "a", "s", "h">>
Curl == <<"c", "u", "r", "l">>
PkgNames == {Bash, Curl}
V42 == <<"4", ".", "2">>
V71 == <<"7", ".", "1">>
Versions == {V42, V71}

\* a bare host (passwordless ssh) and a host url user:password@host:port
HostBare == <<"h", "1">>
HostUrl == <<"u", ":", "p", "@", "h", "1", ":", "2", "2">>
Hosts == {None, Empty, HostBare, HostUrl}

\* the v_type values: the two supported ones and one that is not
Supported == {"rpms", "pip3s"}
Kinds == Supported \cup {"debs"}

\* lines of "rpm -qa": two ordinary ones, one whose version is a single
\* character, one whose name contains the name curl
BashRpm == <<"b", "a", "s", "h", "-", "4", ".", "2", "-", "1">>
CurlRpm == <<"c", "u", "r", "l", "-", "7", ".", "1", "-", "2">>
BashRpmShort == <<"b", "a", "s", "h", "-", "5", "-", "1">>
LibcurlRpm == <<"l", "i", "b", "c", "u", "r", "l", "-", "4", ".", "2", "-", "3">>
RpmLines == {BashRpm, CurlRpm, BashRpmShort, LibcurlRpm}
\* lines of "pip3 list": two in the legacy format name (version), one in
\* the columns format, one with a second parenthesis on the line
BashPip3 == <<"b", "a", "s", "h", " ", "(", "4", ".", "2", ")">>
CurlPip3 == <<"c", "u", "r", "l", " ", "(", "7", ".", "1", ")">>
BashPip3Columns == <<"b", "a", "s", "h", " ", "4", ".", "2">>
CurlPip3Twice == <<"c", "u", "r", "l", " ", "(", "7", ".", "1", ")", " ", "(", "x", ")">>
Pip3Lines == {BashPip3, CurlPip3, BashPip3Columns, CurlPip3Twice}
\* what a failing command writes to stderr, and what a failing
\* SSHChannel.execute returns
ErrText == <<"e", "r", "r">>
ChanErrText == <<"c", "h", "a", "n">>

\* the sequences over S of length at most n
SeqsUpTo(S, n) == UNION {[1..k -> S] : k \in 0..n}

RECURSIVE JoinLines(_)
JoinLines(ls) ==
    IF ls = <<>> THEN <<>> ELSE Head(ls) \o <<NL>> \o JoinLines(Tail(ls))

LinesOf(base) == IF base = "rpm" THEN RpmLines ELSE Pip3Lines
Outputs(base, n) == {JoinLines(ls) : ls \in SeqsUpTo(LinesOf(base), n)}

\* A target collection: a list of names, or a dict name -> expected version
\* in insertion order (isdict).  vers is empty for a list.
ListOf(names) == [isdict |-> FALSE, names |-> names, vers |-> <<>>]
DictOf(names, vers) == [isdict |-> TRUE, names |-> names, vers |-> vers]
NameSeqs == {ns \in SeqsUpTo(PkgNames, Cardinality(PkgNames)) :
                \A i, j \in 1..Len(ns) : i # j => ns[i] # ns[j]}
AllTargets ==
    {ListOf(ns) : ns \in NameSeqs}
    \cup UNION {{DictOf(ns, vs) : vs \in [1..Len(ns) -> Versions]} : ns \in NameSeqs}
\* the targets of the calls that exercise the connection state
FewTargets == {ListOf(<<Bash, Curl>>), DictOf(<<Bash>>, <<V71>>)}
\* pkgs[pkg] for the i-th key of a dict
Expected(pkgs, i) == pkgs.vers[i]

(***************************************************************************)
(* How a call ends: it returns (type "ok"), raises VError(code, message)   *)
(* or raises another exception.  The message is kept as its kind and the   *)
(* values formatted into it.                                               *)
(***************************************************************************)
Blank == [type |-> "ok", code |-> 0, kind |-> "", manager |-> "",
          value |-> "", host |-> <<>>, pkg |-> <<>>, cmd |-> <<>>, output |-> <<>>,
          installed |-> <<>>, expected |-> <<>>]
Ok == Blank
VError(code, kind) == [Blank EXCEPT !.type = "VError", !.code = code, !.kind = kind]
\* "Command failure. cmd: %s stderr: %s" % (cmd, result)
CommandFailure(cmd, result) ==
    [VError(EINVAL, "CommandFailure") EXCEPT !.cmd = cmd, !.output = result]
\* "rpm pkg %s not installed." % pkg, "pip3 pkg %s not installed." % pkg
PackageNotInstalled(manager, pkg) ==
    [VError(EINVAL, "PackageNotInstalled") EXCEPT !.manager = manager, !.pkg = pkg]
\* "Mismatched version for rpm package %s. Installed %s. Expected %s."
VersionMismatch(manager, pkg, installed, expected) ==
    [VError(EINVAL, "VersionMismatch") EXCEPT !.manager = manager, !.pkg = pkg,
        !.installed = installed, !.expected = expected]
\* "Action parameter %s not supported" % v_type
UnsupportedKind(v_type) ==
    [VError(EINVAL, "UnsupportedKind") EXCEPT !.value = v_type]
\* "Invalid host_url format is given for passwordless ssh not configured host."
InvalidHostFormat == VError(EINVAL, "InvalidHostFormat")
\* "Failed to create ssh connection to %s, Error: %s" % (host, err)
ConnectionFailure(host) ==
    [VError(EINVAL, "ConnectionFailure") EXCEPT !.host = host]
\* matched_str.groups() with matched_str None:
\* AttributeError: 'NoneType' object has no attribute 'groups'
AttributeError(manager, pkg) ==
    [Blank EXCEPT !.type = "AttributeError", !.manager = manager, !.pkg = pkg]

(***************************************************************************)
(* What the environment answers to one command: the return code, the       *)
(* stdout and stderr of the local process, and the output text that        *)
(* SSHChannel.execute returns.                                             *)
(***************************************************************************)
EnvOk(out) == [retcode |-> 0, stdout |-> out, stderr |-> Empty, chan |-> out]
EnvFail(out) == [retcode |-> 1, stdout |-> out, stderr |-> ErrText, chan |-> ChanErrText]
NoEnv == [retcode |-> 0, stdout |-> Empty, stderr |-> Empty, chan |-> Empty]
FailEnv(base) == EnvFail(JoinLines(<<IF base = "rpm" THEN BashRpm ELSE BashPip3>>))
Envs(base, n) == {EnvOk(o) : o \in Outputs(base, n)} \cup {FailEnv(base)}
\* the answers used where the connection state is exercised: every package
\* listed, curl missing, the command failing
FewEnvs(base) ==
    IF base = "rpm"
    THEN {EnvOk(JoinLines(<<BashRpm, CurlRpm>>)), EnvOk(JoinLines(<<BashRpm>>)),
          FailEnv(base)}
    ELSE {EnvOk(JoinLines(<<BashPip3, CurlPip3>>)), EnvOk(JoinLines(<<BashPip3>>)),
          FailEnv(base)}

(***************************************************************************)
(* PkgV.__execute_cmd.  sshv is self.ssh: 0 for None, otherwise the number *)
(* of the SSHChannel.  Returns whether it raised, the result text, the     *)
(* error raised and the record of the one command it ran.                  *)
(***************************************************************************)
\* (a variant of line 49 that always takes stdout)
ExecResultLocalStdout(env) == env.stdout

\* line 49: stdout when the return code is 0, stderr otherwise
ExecResultLocal(env) == IF env.retcode = 0 THEN env.stdout ELSE env.stderr

ExecuteCmd(sshv, cmd, env) ==
    LET result == IF sshv # 0 THEN env.chan ELSE ExecResultLocal(env)
        run == [cmd |-> cmd, via |-> IF sshv # 0 THEN "session" ELSE "local",
                sid |-> sshv]
    IN  [raised |-> env.retcode # 0,
         error  |-> CommandFailure(cmd, result),
         result |-> result,
         execs  |-> <<run>>]

\* the two base commands, and the passwordless wrapping "ssh %s %s"
RpmCmd == <<"r", "p", "m", " ", "-", "q", "a">>
Pip3Cmd == <<"p", "i", "p", "3", " ", "l", "i", "s", "t">>
SshWrap(host, cmd) == <<"s", "s", "h", " ">> \o Fmt(host) \o <<" ">> \o cmd

\* lines 102-103 and 125-126: a target that is not a dict skips the check
SkipVersionCheck(pkgs, skip_version_check) ==
    IF ~pkgs.isdict THEN TRUE ELSE skip_version_check

(***************************************************************************)
(* The loop of validate_rpm_pkgs over pkgs[i..], lines 110-119.            *)
(***************************************************************************)
RECURSIVE RpmCheck(_, _, _, _)
RpmCheck(result, pkgs, skip, i) ==
    IF i > Len(pkgs.names) THEN Ok
    ELSE LET pkg == pkgs.names[i]
             matched_str == RpmVersionSearch(result, pkg)
         IN  IF Find(result, pkg) = -1
                 THEN PackageNotInstalled("rpm", pkg)
             ELSE IF skip THEN RpmCheck(result, pkgs, skip, i + 1)
             ELSE IF ~matched_str.found THEN AttributeError("rpm", pkg)
             ELSE IF matched_str.groups[1] # Expected(pkgs, i)
                 THEN VersionMismatch("rpm", pkg, matched_str.groups[1],
                                      Expected(pkgs, i))
             ELSE RpmCheck(result, pkgs, skip, i + 1)

(***************************************************************************)
(* The loop of validate_pip3_pkgs over pkgs[i..], lines 133-142.           *)
(***************************************************************************)
RECURSIVE Pip3Check(_, _, _, _)
Pip3Check(result, pkgs, skip, i) ==
    IF i > Len(pkgs.names) THEN Ok
    ELSE LET pkg == pkgs.names[i]
             matched_str == Pip3VersionSearch(result, pkg)
         IN  IF Find(result, pkg) = -1
                 THEN PackageNotInstalled("pip3", pkg)
             ELSE IF skip THEN Pip3Check(result, pkgs, skip, i + 1)
             ELSE IF ~matched_str.found THEN AttributeError("pip3", pkg)
             ELSE IF matched_str.groups[1] # Expected(pkgs, i)
                 THEN VersionMismatch("pip3", pkg, matched_str.groups[1],
                                      Expected(pkgs, i))
             ELSE Pip3Check(result, pkgs, skip, i + 1)

(***************************************************************************)
(* PkgV.validate_rpm_pkgs and PkgV.validate_pip3_pkgs, as functions of the *)
(* instance fields (flag is self.passwdless_ssh_enabled, sshv is self.ssh),*)
(* the arguments and the environment's answer: the outcome and the         *)
(* commands run.                                                           *)
(***************************************************************************)
ValidateRpmPkgs(flag, sshv, host, pkgs, skip_version_check, env) ==
    LET skip == SkipVersionCheck(pkgs, skip_version_check)
        rpm_cmd == IF flag THEN SshWrap(host, RpmCmd) ELSE RpmCmd
        x == ExecuteCmd(sshv, rpm_cmd, env)
    IN  [outcome |-> IF x.raised THEN x.error
                     ELSE RpmCheck(x.result, pkgs, skip, 1),
         execs |-> x.execs]

ValidatePip3Pkgs(flag, sshv, host, pkgs, skip_version_check, env) ==
    LET skip == SkipVersionCheck(pkgs, skip_version_check)
        pip3_cmd == IF flag THEN SshWrap(host, Pip3Cmd) ELSE Pip3Cmd
        x == ExecuteCmd(sshv, pip3_cmd, env)
    IN  [outcome |-> IF x.raised THEN x.error
                     ELSE Pip3Check(x.result, pkgs, skip, 1),
         execs |-> x.execs]

\* the default of the parameter skip_version_check (lines 98 and 121), which
\* is what validate's dispatch leaves it at (lines 89 and 91)
\* (a variant in which the check is on by default)
DefaultCheckVersion == FALSE

DefaultSkipVersionCheck == TRUE

(***************************************************************************)
(* SSHChannel(host=..., username=..., password=..., port=...): the session *)
(* is connected once constructed.                                          *)
(***************************************************************************)
SSHChannel(host, username, password, port) ==
    [host |-> host, username |-> username, password |-> password,
     port |-> port, connected |-> TRUE]

\* SSHChannel.disconnect on session sid
Disconnect(sess, sid) == [sess EXCEPT ![sid].connected = FALSE]

(***************************************************************************)
(* Lines 63-86 of validate: the passwordless probe, the parse of the host  *)
(* string and the construction of the session.  probe_ok says whether      *)
(* NetworkV().validate returned (it raises VError otherwise), ctor_ok      *)
(* whether the SSHChannel constructor returned.  The result holds the new  *)
(* values of the two fields, of the sessions and of the local variable     *)
(* host, which line 78 rebinds to the third group.                         *)
(***************************************************************************)
ConnectionSelect(flag, sshv, sess, host, probe_ok, ctor_ok) ==
    LET same == [raised |-> FALSE, error |-> Ok, flag |-> flag, ssh |-> sshv,
                 sessions |-> sess, host |-> host, probe |-> "none",
                 created |-> 0]
        host_details == HostSearch(host)
        g == host_details.groups
    IN  IF ~Truthy(host) THEN same
        ELSE IF probe_ok THEN [same EXCEPT !.flag = TRUE, !.probe = "ok"]
        ELSE IF ~host_details.found \/ Len(g) # 4
            THEN [same EXCEPT !.raised = TRUE, !.error = InvalidHostFormat,
                              !.probe = "fail"]
        ELSE IF ~ctor_ok
            THEN [same EXCEPT !.raised = TRUE, !.error = ConnectionFailure(g[3]),
                              !.probe = "fail", !.host = g[3]]
        ELSE [same EXCEPT !.probe = "fail", !.host = g[3],
                          !.sessions = Append(sess, SSHChannel(g[3], g[1], g[2], g[4])),
                          !.ssh = Len(sess) + 1,
                          !.created = Len(sess) + 1]

\* Lines 95-96 follow an if/elif/else whose three branches return or raise:
\* no path of validate reaches the disconnect.
ReachesDisconnect(v_type) == FALSE

\* the record of the most recent call
NoCall ==
    [op |-> "none", v_type |-> "", args |-> ListOf(<<>>), host |-> None,
     skip |-> TRUE, probe |-> "none", created |-> 0, dispatched |-> FALSE,
     flag_at_dispatch |-> FALSE, ssh_at_dispatch |-> 0, env |-> NoEnv,
     execs |-> <<>>, outcome |-> Ok, pre_flag |-> FALSE, pre_ssh |-> 0]

(***************************************************************************)
(* PkgV.validate(v_type, args, host), the whole call.                      *)
(***************************************************************************)
\* lines 88-93: the dispatch on v_type, after a selection c that did not raise
Dispatch(c, v_type, args, env) ==
    IF c.raised THEN [outcome |-> c.error, execs |-> <<>>]
    ELSE IF v_type = "rpms"
        THEN ValidateRpmPkgs(c.flag, c.ssh, c.host, args,
                             DefaultSkipVersionCheck, env)
    ELSE IF v_type = "pip3s"
        THEN ValidatePip3Pkgs(c.flag, c.ssh, c.host, args,
                              DefaultSkipVersionCheck, env)
    ELSE [outcome |-> UnsupportedKind(v_type), execs |-> <<>>]

ValidateCall(v_type, args, host, probe_ok, ctor_ok, env) ==
    \E c \in {ConnectionSelect(passwdless_ssh_enabled, ssh, sessions, host,
                               probe_ok, ctor_ok)} :
      \E r \in {Dispatch(c, v_type, args, env)} :
        /\ c.created # 0 => Len(sessions) < MaxSessions
        /\ passwdless_ssh_enabled' = c.flag
        /\ ssh' = c.ssh
        /\ sessions' = IF ReachesDisconnect(v_type) /\ c.ssh # 0
                       THEN Disconnect(c.sessions, c.ssh) ELSE c.sessions
        /\ last' = [op |-> "validate", v_type |-> v_type, args |-> args,
                    host |-> host, skip |-> DefaultSkipVersionCheck,
                    probe |-> c.probe, created |-> c.created,
                    dispatched |-> ~c.raised,
                    flag_at_dispatch |-> c.flag, ssh_at_dispatch |-> c.ssh,
                    env |-> IF r.execs = <<>> THEN NoEnv ELSE env,
                    execs |-> r.execs, outcome |-> r.outcome,
                    pre_flag |-> passwdless_ssh_enabled, pre_ssh |-> ssh]

(***************************************************************************)
(* PkgV.validate_rpm_pkgs and PkgV.validate_pip3_pkgs called directly.     *)
(***************************************************************************)
DirectCall(op, r, host, pkgs, skip_version_check, env) ==
    /\ last' = [op |-> op, v_type |-> "", args |-> pkgs, host |-> host,
                skip |-> skip_version_check, probe |-> "none", created |-> 0,
                dispatched |-> TRUE,
                flag_at_dispatch |-> passwdless_ssh_enabled,
                ssh_at_dispatch |-> ssh, env |-> env,
                execs |-> r.execs, outcome |-> r.outcome,
                pre_flag |-> passwdless_ssh_enabled, pre_ssh |-> ssh]
    /\ UNCHANGED <<passwdless_ssh_enabled, ssh, sessions>>

ValidateRpmPkgsCall(host, pkgs, skip_version_check, env) ==
    DirectCall("validate_rpm_pkgs",
               ValidateRpmPkgs(passwdless_ssh_enabled, ssh, host, pkgs,
                               skip_version_check, env),
               host, pkgs, skip_version_check, env)

ValidatePip3PkgsCall(host, pkgs, skip_version_check, env) ==
    DirectCall("validate_pip3_pkgs",
               ValidatePip3Pkgs(passwdless_ssh_enabled, ssh, host, pkgs,
                                skip_version_check, env),
               host, pkgs, skip_version_check, env)

\* PkgV.__init__
Init ==
    /\ passwdless_ssh_enabled = FALSE
    /\ ssh = 0
    /\ sessions = <<>>
    /\ last = NoCall

BaseOf(v_type) == IF v_type = "rpms" THEN "rpm" ELSE "pip3"

(***************************************************************************)
(* Spec: any sequence of calls on one instance, over every host, kind and  *)
(* answer of the probe and of the session constructor.                     *)
(***************************************************************************)
\* The environment is asked only what the call asks of it: the probe runs
\* when a host is given, the constructor when the probe failed and the host
\* string parsed, a command when a supported kind is dispatched.
ProbeAnswers(host) == IF Truthy(host) THEN BOOLEAN ELSE {FALSE}
CtorAnswers(host, probe_ok) ==
    IF Truthy(host) /\ ~probe_ok /\ HostSearch(host).found
    THEN BOOLEAN ELSE {FALSE}
Runs(v_type, host, probe_ok, ctor_ok) ==
    /\ v_type \in Supported
    /\ Truthy(host) /\ ~probe_ok => HostSearch(host).found /\ ctor_ok
EnvAnswers(v_type, host, probe_ok, ctor_ok, envs) ==
    IF Runs(v_type, host, probe_ok, ctor_ok) THEN envs ELSE {NoEnv}

Validate ==
    \E v_type \in Kinds, args \in FewTargets, host \in Hosts :
        \E probe_ok \in ProbeAnswers(host) :
            \E ctor_ok \in CtorAnswers(host, probe_ok) :
                \E env \in EnvAnswers(v_type, host, probe_ok, ctor_ok,
                                      FewEnvs(BaseOf(v_type))) :
                    ValidateCall(v_type, args, host, probe_ok, ctor_ok, env)

ValidateRpm ==
    \E host \in {None, HostBare}, pkgs \in FewTargets,
       skip_version_check \in BOOLEAN, env \in FewEnvs("rpm") :
        ValidateRpmPkgsCall(host, pkgs, skip_version_check, env)

ValidatePip3 ==
    \E host \in {None, HostBare}, pkgs \in FewTargets,
       skip_version_check \in BOOLEAN, env \in FewEnvs("pip3") :
        ValidatePip3PkgsCall(host, pkgs, skip_version_check, env)

Next == Validate \/ ValidateRpm \/ ValidatePip3

Spec == Init /\ [][Next]_vars

(***************************************************************************)
(* SpecPkg: one call on a fresh instance with no host, over every target   *)
(* collection and every text of at most MaxLines lines the command prints. *)
(***************************************************************************)
PkgValidate ==
    /\ last = NoCall
    /\ \E v_type \in Kinds, args \in AllTargets :
        \E env \in EnvAnswers(v_type, None, FALSE, FALSE,
                              Envs(BaseOf(v_type), MaxLines)) :
            ValidateCall(v_type, args, None, FALSE, FALSE, env)

PkgValidateRpm ==
    /\ last = NoCall
    /\ \E pkgs \in AllTargets, skip_version_check \in BOOLEAN,
          env \in Envs("rpm", MaxLines) :
        ValidateRpmPkgsCall(None, pkgs, skip_version_check, env)

PkgValidatePip3 ==
    /\ last = NoCall
    /\ \E pkgs \in AllTargets, skip_version_check \in BOOLEAN,
          env \in Envs("pip3", MaxLines) :
        ValidatePip3PkgsCall(None, pkgs, skip_version_check, env)

NextPkg == PkgValidate \/ PkgValidateRpm \/ PkgValidatePip3

SpecPkg == Init /\ [][NextPkg]_vars

(***************************************************************************)
(* The claims.  They are stated over the record of the most recent call.   *)
(***************************************************************************)
IsValidate == last.op = "validate"
IsDirect == last.op \in {"validate_rpm_pkgs", "validate_pip3_pkgs"}
\* the call ran a command
Ran == last.execs # <<>>
\* the package manager the call queried
LastBase == IF last.op = "validate" THEN BaseOf(last.v_type)
            ELSE IF last.op = "validate_rpm_pkgs" THEN "rpm" ELSE "pip3"
LastBaseCmd == IF LastBase = "rpm" THEN RpmCmd ELSE Pip3Cmd
\* the call reached a per-kind validator
ReachedValidator ==
    \/ IsDirect
    \/ IsValidate /\ last.dispatched /\ last.v_type \in Supported
\* the text the command gave back, on the path it ran through
ResultText == IF Ran /\ last.execs[1].via = "session" THEN last.env.chan
              ELSE IF last.env.retcode = 0 THEN last.env.stdout
              ELSE last.env.stderr
Names == last.args.names
Occurs(text, sub) == \E i \in 1..(Len(text) + 1) : OccursAt(text, sub, i)
\* the requested names that do not occur in the output
Missing == {i \in 1..Len(Names) : ~Occurs(ResultText, Names[i])}
\* what the version pattern of the package manager extracts for a name
Extracted(pkg) == IF LastBase = "rpm" THEN RpmVersionSearch(ResultText, pkg)
                  ELSE Pip3VersionSearch(ResultText, pkg)
\* the names whose extracted version differs from the expected one, and
\* the names for which the pattern extracts nothing
Differ == {i \in 1..Len(Names) :
              /\ Extracted(Names[i]).found
              /\ Extracted(Names[i]).groups[1] # last.args.vers[i]}
Unmatched == {i \in 1..Len(Names) : ~Extracted(Names[i]).found}
MismatchAt(i) ==
    VersionMismatch(LastBase, Names[i], Extracted(Names[i]).groups[1],
                    last.args.vers[i])

\* a mapping request whose command succeeded and printed every name
MappingCase ==
    /\ ReachedValidator /\ Ran
    /\ last.args.isdict
    /\ last.env.retcode = 0
    /\ Missing = {}

C1_WitnessDirect ==
    /\ IsDirect /\ MappingCase /\ ~last.skip
    /\ Differ = {2} /\ Unmatched = {}
    /\ last.outcome.kind = "VersionMismatch"

\* C2: a session created by a validate call is disconnected when the call
\* has ended.
C2_Original ==
    (IsValidate /\ last.created # 0) => ~sessions[last.created].connected

\* C3: a validate call without a host runs exactly the base command,
\* through the local process.
C3_Original ==
    (IsValidate /\ ~Truthy(last.host) /\ Ran) =>
        /\ last.execs[1].cmd = LastBaseCmd
        /\ last.execs[1].via = "local"

\* the host strings of the model of the form user:password@host:port
IsHostUrl(host) == host = HostUrl

\* C4 as stated: validate runs no command and raises InvalidHostFormat
\* (creating no session) when the probe fails on a host string that does
\* not parse, and runs no command and raises UnsupportedKind naming the
\* value when the kind is not supported.
C4_Original ==
    IsValidate =>
        /\ (last.probe = "fail" /\ ~IsHostUrl(last.host)) =>
                /\ last.outcome = InvalidHostFormat
                /\ last.created = 0 /\ ssh = last.pre_ssh
                /\ last.execs = <<>>
        /\ last.v_type \notin Supported =>
                /\ last.outcome = UnsupportedKind(last.v_type)
                /\ last.execs = <<>>

\* C4 amended: in both cases the call fails with no command run; the
\* first raises InvalidHostFormat and creates no session; the second
\* raises UnsupportedKind naming the value unless the connection selection
\* already failed the call with InvalidHostFormat or ConnectionFailure.
C4_Amended ==
    IsValidate =>
        /\ (last.probe = "fail" /\ ~IsHostUrl(last.host)) =>
                /\ last.outcome = InvalidHostFormat
                /\ last.created = 0 /\ ssh = last.pre_ssh
                /\ last.execs = <<>>
        /\ last.v_type \notin Supported =>
                /\ last.execs = <<>>
                /\ last.outcome.type = "VError"
                /\ last.dispatched =>
                        last.outcome = UnsupportedKind(last.v_type)
                /\ ~last.dispatched =>
                        last.outcome.kind \in {"InvalidHostFormat", "ConnectionFailure"}

\* an unsupported kind was refused after a session had been created for the
\* call, with no command run
C4_Witness ==
    /\ IsValidate /\ last.v_type \notin Supported
    /\ last.created # 0
    /\ last.outcome = UnsupportedKind(last.v_type)
    /\ last.execs = <<>>

\* the probe failed on a host string that does not parse
C4_WitnessHost ==
    /\ IsValidate /\ last.probe = "fail" /\ ~IsHostUrl(last.host)
    /\ last.v_type \in Supported
    /\ last.outcome = InvalidHostFormat

\* C5: a validate call whose probe succeeds runs "ssh <host> <base command>"
\* with the host as given, through the local process, with no session.
C5_Original ==
    (IsValidate /\ Truthy(last.host) /\ last.probe = "ok"
        /\ last.v_type \in Supported) =>
        /\ Len(last.execs) = 1
        /\ last.execs[1].cmd = SshWrap(last.host, LastBaseCmd)
        /\ last.ssh_at_dispatch = 0
        /\ last.execs[1].via = "local"

\* C6: a plain-list request whose command succeeds returns when every name
\* occurs in the output and otherwise raises PackageNotInstalled naming the
\* first name in list order that does not occur, whatever
\* skip_version_check is.
C6_PlainList ==
    (ReachedValidator /\ Ran /\ ~last.args.isdict /\ last.env.retcode = 0) =>
        last.outcome = IF Missing = {} THEN Ok
                       ELSE PackageNotInstalled(LastBase, Names[Min(Missing)])

\* a list was validated with skip_version_check=False against an output
\* that holds a name but nothing the version pattern matches, and returned
C6_Witness ==
    /\ IsDirect /\ Ran /\ ~last.args.isdict /\ last.env.retcode = 0
    /\ ~last.skip
    /\ Names # <<>> /\ Missing = {} /\ Unmatched # {}
    /\ last.outcome = Ok

\* the second name of a list was the first one missing
C6_WitnessMissing ==
    /\ ReachedValidator /\ Ran /\ ~last.args.isdict /\ last.env.retcode = 0
    /\ Missing = {2}
    /\ last.outcome.kind = "PackageNotInstalled"

\* C7: every call returns or raises a VError with code EINVAL.
C7_Original ==
    /\ last.outcome.type \in {"ok", "VError"}
    /\ last.outcome.type = "VError" => last.outcome.code = EINVAL

\* C8: a command that returns a non-zero code fails the call with
\* CommandFailure carrying the command that was run and the captured
\* output (stderr of the local process, the output of the session); no
\* package is checked.
C8_CommandFailure ==
    (Ran /\ last.env.retcode # 0) =>
        /\ Len(last.execs) = 1
        /\ last.outcome =
              CommandFailure(last.execs[1].cmd,
                             IF last.execs[1].via = "session"
                             THEN last.env.chan ELSE last.env.stderr)
        /\ last.outcome.code = EINVAL
        /\ LET n == Len(last.execs[1].cmd)
               b == Len(LastBaseCmd)
           IN  SubSeq(last.execs[1].cmd, n - b + 1, n) = LastBaseCmd

\* a command run by the local process failed with text on both streams
C8_Witness ==
    /\ Ran /\ last.env.retcode # 0
    /\ last.execs[1].via = "local"
    /\ last.env.stdout # last.env.stderr
    /\ last.outcome.kind = "CommandFailure"

\* a command run through a session failed
C8_WitnessSession ==
    /\ Ran /\ last.env.retcode # 0
    /\ last.execs[1].via = "session"
    /\ last.outcome.kind = "CommandFailure"

\* C9: when validate dispatches, the passwordless flag is set exactly when
\* this call's probe succeeded and a session is set exactly when this call
\* created it.
C9_Original ==
    (IsValidate /\ last.dispatched) =>
        /\ last.flag_at_dispatch <=> (last.probe = "ok")
        /\ last.ssh_at_dispatch = last.created

\* C10: a validate call that created a session does not set the
\* passwordless flag and runs the unwrapped base command through that
\* session.
C10_Original ==
    (IsValidate /\ last.created # 0 /\ last.v_type \in Supported) =>
        /\ last.flag_at_dispatch = last.pre_flag
        /\ Len(last.execs) = 1
        /\ last.execs[1].cmd = LastBaseCmd
        /\ last.execs[1].via = "session"
        /\ last.execs[1].sid = last.created

====
